---- MODULE Spec2Model ----
(***************************************************************************)
(* Model of hotel_analysis.py: a linear read -> transform -> write         *)
(* pipeline (main) over one JSON document, with its pure helpers           *)
(* parse_taxes and find_and_calculate_room_prices.                         *)
(*                                                                         *)
(* Numbers.  Python floats are modelled exactly on the values the model    *)
(* draws: every numeric input is a multiple of 1/16 of small magnitude, so *)
(* it is exactly representable in binary floating point and every sum the  *)
(* program forms is exact.  A float is therefore an integer count of       *)
(* sixteenths.  Text (numeric strings, formatted prices) is a sequence of  *)
(* one-character strings, so that float() really parses and the f-string   *)
(* format really prints.                                                   *)
(*                                                                         *)
(* Python values.  None-or-value locals are sequences of length 0 or 1.    *)
(* A dict is the sequence of its items [k, v] in insertion order, with     *)
(* distinct keys.                                                          *)
(***************************************************************************)
EXTENDS Integers, Sequences, FiniteSets, TLC

\* ------------------------------------------------------------------ bounds
MaxRooms == 2
MaxTaxes == 2
MaxRest == 1

\* ------------------------------------------------------- generic helpers
Digits == <<"0", "1", "2", "3", "4", "5", "6", "7", "8", "9">>

IsDigit(c) == \E i \in 1..10 : Digits[i] = c

DigitVal(c) == (CHOOSE i \in 1..10 : Digits[i] = c) - 1

RECURSIVE Pow10(_)
Pow10(n) == IF n = 0 THEN 1 ELSE 10 * Pow10(n - 1)

Abs(n) == IF n < 0 THEN -n ELSE n

\* value of a sequence of decimal digits, most significant first
RECURSIVE DigitsVal(_)
DigitsVal(s) ==
    IF s = <<>> THEN 0
    ELSE 10 * DigitsVal(SubSeq(s, 1, Len(s) - 1)) + DigitVal(s[Len(s)])

\* decimal digits of a natural number, no leading zeros ("0" for zero)
RECURSIVE NatChars(_)
NatChars(n) ==
    IF n < 10 THEN <<Digits[n + 1]>>
    ELSE Append(NatChars(n \div 10), Digits[(n % 10) + 1])

\* position of the first "." in s, or 0
DotPos(s) ==
    IF \E i \in 1..Len(s) : s[i] = "."
    THEN CHOOSE i \in 1..Len(s) : s[i] = "." /\ \A j \in 1..(i - 1) : s[j] # "."
    ELSE 0

\* ------------------------------------------------------------ Python values
Str(chars) == [t |-> "str", s |-> chars, n |-> 0]
Num(sixteenths) == [t |-> "num", s |-> <<>>, n |-> sixteenths]

\* float(<str>): optional sign, digits, optional "." and digits, at least one
\* digit; anything else raises ValueError.  The result is in sixteenths.
float_str(s) ==
    LET signed == s # <<>> /\ s[1] \in {"-", "+"}
        body   == IF signed THEN SubSeq(s, 2, Len(s)) ELSE s
        dot    == DotPos(body)
        ip     == IF dot = 0 THEN body ELSE SubSeq(body, 1, dot - 1)
        fp     == IF dot = 0 THEN <<>> ELSE SubSeq(body, dot + 1, Len(body))
        wellformed ==
            /\ \A i \in 1..Len(ip) : IsDigit(ip[i])
            /\ \A i \in 1..Len(fp) : IsDigit(fp[i])
            /\ Len(ip) + Len(fp) > 0
        mag    == 16 * DigitsVal(ip) + (16 * DigitsVal(fp)) \div Pow10(Len(fp))
    IN  IF ~wellformed THEN [ok |-> FALSE, v |-> 0]
        ELSE [ok |-> TRUE,
              v  |-> IF signed /\ s[1] = "-" THEN -mag ELSE mag]

\* float(value) for a value taken from parsed JSON
py_float(value) ==
    IF value.t = "num" THEN [ok |-> TRUE, v |-> value.n]
    ELSE float_str(value.s)

\* variant: the format keeps one digit after the point ("{x:.1f}")
Format2f_one_digit(x) ==
    LET m      == Abs(x) * 10
        q      == m \div 16
        r      == m % 16
        tenths == IF r > 8 \/ (r = 8 /\ q % 2 = 1) THEN q + 1 ELSE q
        sign   == IF x < 0 THEN <<"-">> ELSE <<>>
    IN  sign \o NatChars(tenths \div 10) \o <<".", Digits[(tenths % 10) + 1]>>

\* f"{x:.2f}" for a float x given in sixteenths: round the exact value to the
\* nearest hundredth, ties to even, and print sign, integer part, ".", two
\* digits.
Format2f(x) ==
    LET m     == Abs(x) * 100
        q     == m \div 16
        r     == m % 16
        cents == IF r > 8 \/ (r = 8 /\ q % 2 = 1) THEN q + 1 ELSE q
        sign  == IF x < 0 THEN <<"-">> ELSE <<>>
    IN  sign \o NatChars(cents \div 100)
             \o <<".", Digits[((cents % 100) \div 10) + 1],
                       Digits[(cents % 10) + 1]>>

\* ------------------------------------------------------------------- dicts
Keys(d) == {d[i].k : i \in 1..Len(d)}

HasKey(d, key) == \E i \in 1..Len(d) : d[i].k = key

Get(d, key) == d[CHOOSE i \in 1..Len(d) : d[i].k = key].v

\* d[key] = val
DictSet(d, key, val) ==
    IF HasKey(d, key)
    THEN [i \in 1..Len(d) |-> IF d[i].k = key THEN [k |-> key, v |-> val] ELSE d[i]]
    ELSE Append(d, [k |-> key, v |-> val])

\* json.loads of the text of a JSON value.  The text is given by its
\* grammar: an object with its members in textual order (a repeated name is
\* legal JSON; the last value wins and the name keeps its first position), an
\* array, or text that is not JSON.
RECURSIVE ObjectToDict(_, _)
ObjectToDict(members, d) ==
    IF members = <<>> THEN d
    ELSE ObjectToDict(Tail(members), DictSet(d, members[1].k, members[1].v))

json_loads(text) ==
    IF text.t = "invalid" THEN [err |-> "JSONDecodeError", t |-> "none", d |-> <<>>]
    ELSE IF text.t = "array" THEN [err |-> "none", t |-> "list", d |-> <<>>]
    ELSE [err |-> "none", t |-> "dict", d |-> ObjectToDict(text.members, <<>>)]

\* ------------------------------------------------------------- parse_taxes
\* variant: a value equal to a later one is not added (sum over set(values))
RECURSIVE SumValues_distinct(_, _)
SumValues_distinct(items, acc) ==
    IF items = <<>> THEN [err |-> "none", v |-> acc]
    ELSE LET f == py_float(items[1].v)
         IN  IF ~f.ok THEN [err |-> "ValueError", v |-> 0]
             ELSE IF \E j \in 2..Len(items) : items[j].v = items[1].v
             THEN SumValues_distinct(Tail(items), acc)
             ELSE SumValues_distinct(Tail(items), acc + f.v)

\* sum(float(value) for value in taxes.values()): left fold from 0, stopping
\* at the first value float() rejects.
RECURSIVE SumValues(_, _)
SumValues(items, acc) ==
    IF items = <<>> THEN [err |-> "none", v |-> acc]
    ELSE LET f == py_float(items[1].v)
         IN  IF ~f.ok THEN [err |-> "ValueError", v |-> 0]
             ELSE SumValues(Tail(items), acc + f.v)

parse_taxes(taxes_json) ==
    LET taxes == json_loads(taxes_json)
    IN  IF taxes.err # "none" THEN [err |-> taxes.err, v |-> 0]
        ELSE IF taxes.t # "dict" THEN [err |-> "AttributeError", v |-> 0]
        ELSE SumValues(taxes.d, 0)

\* ------------------------------------------ find_and_calculate_room_prices
\* variant: "<=" for "<"
Lower_le(price, cheapest_price_) ==
    cheapest_price_ = <<>> \/ price <= cheapest_price_[1]

\* variant: ">" for "<"
Lower_gt(price, cheapest_price_) ==
    cheapest_price_ = <<>> \/ price > cheapest_price_[1]

\* cheapest_price is None or price < cheapest_price
Lower(price, cheapest_price_) ==
    cheapest_price_ = <<>> \/ price < cheapest_price_[1]

\* The loop over shown_prices.items(), carrying the three locals.
RECURSIVE RoomLoop(_, _, _)
RoomLoop(items, total_taxes_, acc) ==
    IF items = <<>> THEN acc
    ELSE LET room_type == items[1].k
             f         == py_float(items[1].v)
             price     == f.v
             total_price == price + total_taxes_
             lower     == Lower(price, acc.cheapest_price)
         IN  IF ~f.ok THEN [acc EXCEPT !.err = "ValueError"]
             ELSE RoomLoop(Tail(items), total_taxes_,
                    [err            |-> "none",
                     cheapest_room  |-> IF lower THEN <<room_type>> ELSE acc.cheapest_room,
                     cheapest_price |-> IF lower THEN <<price>> ELSE acc.cheapest_price,
                     room_totals    |-> DictSet(acc.room_totals, room_type,
                                                Format2f(total_price))])

\* variant: an empty mapping is rejected
find_and_calculate_room_prices_checked(shown_prices_, total_taxes_) ==
    IF shown_prices_ = <<>>
    THEN [err |-> "EmptyInputError", cheapest_room |-> <<>>, cheapest_price |-> <<>>,
          room_totals |-> <<>>]
    ELSE RoomLoop(shown_prices_, total_taxes_,
                  [err |-> "none", cheapest_room |-> <<>>, cheapest_price |-> <<>>,
                   room_totals |-> <<>>])

find_and_calculate_room_prices(shown_prices_, total_taxes_) ==
    RoomLoop(shown_prices_, total_taxes_,
             [err |-> "none", cheapest_room |-> <<>>, cheapest_price |-> <<>>,
              room_totals |-> <<>>])

\* ------------------------------------------------------------ input space
Chars100 == <<"1", "0", "0", ".", "0", "0">>
Chars80 == <<"8", "0", ".", "0", "0">>
Chars80125 == <<"8", "0", ".", "1", "2", "5">>
CharsAbc == <<"a", "b", "c">>

\* room types, in the order the document lists them
RoomNames == <<"Standard", "Deluxe", "Suite">>
PriceValues == {Str(Chars100), Str(Chars80), Str(Chars80125), Str(CharsAbc)}
TaxNames == {"vat", "service"}
TaxValues == {Str(<<"1", "0">>), Str(<<"5">>), Num(1), Str(CharsAbc)}
Guests == {2}

\* sequences of at most max items over names and values
ItemSeqs(names, values, max) ==
    UNION {[1..n -> [k : names, v : values]] : n \in 0..max}

\* shown_price as json.load delivers it: a dict (keys distinct) of the first
\* n room types, each with any of the prices
PriceDicts ==
    UNION {{[i \in 1..n |-> [k |-> RoomNames[i], v |-> vs[i]]] :
               vs \in [1..n -> PriceValues]} : n \in 0..MaxRooms}

\* the text held in ext_data.taxes
TaxTexts ==
    {[t |-> "object", members |-> m] : m \in ItemSeqs(TaxNames, TaxValues, MaxTaxes)}
    \cup {[t |-> "array", members |-> <<>>], [t |-> "invalid", members |-> <<>>]}

EntryKeys == {"shown_price", "number_of_guests", "ext_data"}

ScenarioPrices ==
    <<[k |-> "Standard", v |-> Str(Chars100)], [k |-> "Deluxe", v |-> Str(Chars80)]>>
ScenarioTaxes ==
    [t |-> "object",
     members |-> <<[k |-> "vat", v |-> Str(<<"1", "0">>)],
                   [k |-> "service", v |-> Str(<<"5">>)]>>]

Entry(keys, sp, g, ekeys, tx) ==
    [keys |-> keys, shown_price |-> sp, number_of_guests |-> g,
     ext_keys |-> ekeys, taxes |-> tx]

\* assignment results with every field present
FullEntries ==
    {Entry(EntryKeys, sp, g, {"taxes"}, tx) : sp \in PriceDicts, g \in Guests, tx \in TaxTexts}

\* assignment results with one field absent
PartialEntries ==
    {Entry(EntryKeys \ {key}, ScenarioPrices, 2, {"taxes"}, ScenarioTaxes) : key \in EntryKeys}
    \cup {Entry(EntryKeys, ScenarioPrices, 2, {}, ScenarioTaxes)}

\* what may follow the first assignment result: another, different quote
OtherEntries ==
    {Entry(EntryKeys, <<[k |-> "Suite", v |-> Str(<<"5">>)]>>, 3, {"taxes"},
           [t |-> "object", members |-> <<[k |-> "vat", v |-> Str(<<"5">>)]>>])}

Rests == UNION {[1..n -> OtherEntries] : n \in 0..MaxRest}

EmptyDoc == [keys |-> {}, assignment_results |-> <<>>]

Docs ==
    {[keys |-> {"assignment_results"}, assignment_results |-> <<first>> \o rest] :
        first \in FullEntries \cup PartialEntries, rest \in Rests}
    \cup {[keys |-> {"assignment_results"}, assignment_results |-> <<>>], EmptyDoc}

\* Python-task.json on disk: absent, not JSON, or a document
Files ==
    {[state |-> "ok", doc |-> d] : d \in Docs}
    \cup {[state |-> "missing", doc |-> EmptyDoc], [state |-> "invalid", doc |-> EmptyDoc]}

\* -------------------------------------------------------------------- state
VARIABLES
    file,               \* Python-task.json
    pc,                 \* the step of main that runs next (or that raised)
    error,              \* the uncaught exception, "none" while running
    input_json_data,    \* locals of main ...
    assignment_results,
    shown_prices,
    number_of_guests,
    total_taxes,
    cheapest_room,
    cheapest_price,
    room_totals,
    cheapest_info,
    output,
    out_file,           \* hotel_price_analysis_output.json: <<>> or <<content>>
    console             \* lines printed so far

vars == <<file, pc, error, input_json_data, assignment_results, shown_prices,
          number_of_guests, total_taxes, cheapest_room, cheapest_price,
          room_totals, cheapest_info, output, out_file, console>>

Init ==
    /\ file \in Files
    /\ pc = "load"
    /\ error = "none"
    /\ input_json_data = <<>>
    /\ assignment_results = <<>>
    /\ shown_prices = <<>>
    /\ number_of_guests = <<>>
    /\ total_taxes = <<>>
    /\ cheapest_room = <<>>
    /\ cheapest_price = <<>>
    /\ room_totals = <<>>
    /\ cheapest_info = <<>>
    /\ output = <<>>
    /\ out_file = <<>>
    /\ console = <<>>

\* variant: the exception is reported on the console before it leaves main
Raise_logged(exc) ==
    /\ error' = exc
    /\ console' = Append(console, [label |-> "Error:", text |-> <<exc>>])
    /\ UNCHANGED <<file, pc, input_json_data, assignment_results, shown_prices,
                   number_of_guests, total_taxes, cheapest_room, cheapest_price,
                   room_totals, cheapest_info, output, out_file>>

\* an exception leaves main: nothing else changes, nothing runs after it
Raise(exc) ==
    /\ error' = exc
    /\ UNCHANGED <<file, pc, input_json_data, assignment_results, shown_prices,
                   number_of_guests, total_taxes, cheapest_room, cheapest_price,
                   room_totals, cheapest_info, output, out_file, console>>

\* Step 1: input_json_data = read_json_file("Python-task.json")
Load ==
    /\ pc = "load" /\ error = "none"
    /\ IF file.state = "missing" THEN Raise("FileNotFoundError")
       ELSE IF file.state = "invalid" THEN Raise("JSONDecodeError")
       ELSE /\ input_json_data' = <<file.doc>>
            /\ pc' = "extract"
            /\ UNCHANGED <<file, error, assignment_results, shown_prices,
                           number_of_guests, total_taxes, cheapest_room,
                           cheapest_price, room_totals, cheapest_info, output,
                           out_file, console>>

\* variant: the last assignment result is taken ([-1] for [0])
Extract_last ==
    /\ pc = "extract" /\ error = "none"
    /\ LET doc == input_json_data[1] IN
       IF "assignment_results" \notin doc.keys THEN Raise("KeyError")
       ELSE IF doc.assignment_results = <<>> THEN Raise("IndexError")
       ELSE LET first == doc.assignment_results[Len(doc.assignment_results)] IN
            IF "shown_price" \notin first.keys \/ "number_of_guests" \notin first.keys
            THEN Raise("KeyError")
            ELSE /\ assignment_results' = <<first>>
                 /\ shown_prices' = <<first.shown_price>>
                 /\ number_of_guests' = <<first.number_of_guests>>
                 /\ pc' = "taxes"
                 /\ UNCHANGED <<file, error, input_json_data, total_taxes,
                                cheapest_room, cheapest_price, room_totals,
                                cheapest_info, output, out_file, console>>

\* Step 2: assignment_results[0], shown_price, number_of_guests
Extract ==
    /\ pc = "extract" /\ error = "none"
    /\ LET doc == input_json_data[1] IN
       IF "assignment_results" \notin doc.keys THEN Raise("KeyError")
       ELSE IF doc.assignment_results = <<>> THEN Raise("IndexError")
       ELSE LET first == doc.assignment_results[1] IN
            IF "shown_price" \notin first.keys \/ "number_of_guests" \notin first.keys
            THEN Raise("KeyError")
            ELSE /\ assignment_results' = <<first>>
                 /\ shown_prices' = <<first.shown_price>>
                 /\ number_of_guests' = <<first.number_of_guests>>
                 /\ pc' = "taxes"
                 /\ UNCHANGED <<file, error, input_json_data, total_taxes,
                                cheapest_room, cheapest_price, room_totals,
                                cheapest_info, output, out_file, console>>

\* Step 3: total_taxes = parse_taxes(assignment_results["ext_data"]["taxes"])
ParseTaxes ==
    /\ pc = "taxes" /\ error = "none"
    /\ LET first == assignment_results[1] IN
       IF "ext_data" \notin first.keys \/ "taxes" \notin first.ext_keys
       THEN Raise("KeyError")
       ELSE LET r == parse_taxes(first.taxes) IN
            IF r.err # "none" THEN Raise(r.err)
            ELSE /\ total_taxes' = <<r.v>>
                 /\ pc' = "resolve"
                 /\ UNCHANGED <<file, error, input_json_data, assignment_results,
                                shown_prices, number_of_guests, cheapest_room,
                                cheapest_price, room_totals, cheapest_info,
                                output, out_file, console>>

\* Step 4: find_and_calculate_room_prices(shown_prices, total_taxes)
Resolve ==
    /\ pc = "resolve" /\ error = "none"
    /\ LET r == find_and_calculate_room_prices(shown_prices[1], total_taxes[1]) IN
       IF r.err # "none" THEN Raise(r.err)
       ELSE /\ cheapest_room' = r.cheapest_room
            /\ cheapest_price' = r.cheapest_price
            /\ room_totals' = <<r.room_totals>>
            /\ pc' = "assemble"
            /\ UNCHANGED <<file, error, input_json_data, assignment_results,
                           shown_prices, number_of_guests, total_taxes,
                           cheapest_info, output, out_file, console>>

\* variant: the price reported is the room's total (net price + taxes)
Assemble_total ==
    /\ pc = "assemble" /\ error = "none"
    /\ IF cheapest_price = <<>> THEN Raise("TypeError")
       ELSE LET info == [room_type        |-> cheapest_room[1],
                         number_of_guests |-> number_of_guests[1],
                         price            |-> Format2f(cheapest_price[1] + total_taxes[1])]
            IN  /\ cheapest_info' = <<info>>
                /\ output' = <<[cheapest_price_info |-> info,
                                room_totals |-> room_totals[1]]>>
                /\ pc' = "write"
                /\ UNCHANGED <<file, error, input_json_data, assignment_results,
                               shown_prices, number_of_guests, total_taxes,
                               cheapest_room, cheapest_price, room_totals,
                               out_file, console>>

\* variant: the results are printed without the output file being written
Assemble_skip_write ==
    /\ pc = "assemble" /\ error = "none"
    /\ IF cheapest_price = <<>> THEN Raise("TypeError")
       ELSE LET info == [room_type        |-> cheapest_room[1],
                         number_of_guests |-> number_of_guests[1],
                         price            |-> Format2f(cheapest_price[1])]
            IN  /\ cheapest_info' = <<info>>
                /\ output' = <<[cheapest_price_info |-> info,
                                room_totals |-> room_totals[1]]>>
                /\ pc' = "print1"
                /\ UNCHANGED <<file, error, input_json_data, assignment_results,
                               shown_prices, number_of_guests, total_taxes,
                               cheapest_room, cheapest_price, room_totals,
                               out_file, console>>

\* Steps 5 and 6: cheapest_info and output.  Formatting None with ".2f"
\* raises TypeError.
Assemble ==
    /\ pc = "assemble" /\ error = "none"
    /\ IF cheapest_price = <<>> THEN Raise("TypeError")
       ELSE LET info == [room_type        |-> cheapest_room[1],
                         number_of_guests |-> number_of_guests[1],
                         price            |-> Format2f(cheapest_price[1])]
            IN  /\ cheapest_info' = <<info>>
                /\ output' = <<[cheapest_price_info |-> info,
                                room_totals |-> room_totals[1]]>>
                /\ pc' = "write"
                /\ UNCHANGED <<file, error, input_json_data, assignment_results,
                               shown_prices, number_of_guests, total_taxes,
                               cheapest_room, cheapest_price, room_totals,
                               out_file, console>>

\* Step 7: write_output_to_file(output, ...); the path may be unwritable
Write ==
    /\ pc = "write" /\ error = "none"
    /\ \E writable \in BOOLEAN :
         IF ~writable THEN Raise("PermissionError")
         ELSE /\ out_file' = <<output[1]>>
              /\ pc' = "print1"
              /\ UNCHANGED <<file, error, input_json_data, assignment_results,
                             shown_prices, number_of_guests, total_taxes,
                             cheapest_room, cheapest_price, room_totals,
                             cheapest_info, output, console>>

PrintLine(at, label, text, next) ==
    /\ pc = at /\ error = "none"
    /\ console' = Append(console, [label |-> label, text |-> text])
    /\ pc' = next
    /\ UNCHANGED <<file, error, input_json_data, assignment_results,
                   shown_prices, number_of_guests, total_taxes, cheapest_room,
                   cheapest_price, room_totals, cheapest_info, output, out_file>>

\* Step 8: the three print calls
Print1 == PrintLine("print1", "Cheapest Price:", <<Format2f(cheapest_price[1])>>, "print2")

Print2 == PrintLine("print2", "Cheapest Price Info:", cheapest_info, "print3")

Print3 == PrintLine("print3", "Room Totals (Net Price + Taxes):", room_totals, "done")

Next ==
    \/ Load
    \/ Extract
    \/ ParseTaxes
    \/ Resolve
    \/ Assemble
    \/ Write
    \/ Print1
    \/ Print2
    \/ Print3

Spec == Init /\ [][Next]_vars

\* ============================================================== properties
\* Reading a printed amount back, independently of Format2f.

\* s is digits, ".", two digits, with an optional leading "-"
TwoDecimalForm(s) ==
    LET body == IF s # <<>> /\ s[1] = "-" THEN Tail(s) ELSE s
    IN  /\ Len(body) >= 4
        /\ body[Len(body) - 2] = "."
        /\ \A i \in 1..Len(body) : i # Len(body) - 2 => IsDigit(body[i])

\* the amount a two-decimal string denotes, in hundredths
CentsOf(s) ==
    LET neg  == s[1] = "-"
        body == IF neg THEN Tail(s) ELSE s
        mag  == 100 * DigitsVal(SubSeq(body, 1, Len(body) - 3))
                + DigitsVal(SubSeq(body, Len(body) - 1, Len(body)))
    IN  IF neg THEN -mag ELSE mag

\* s shows the float x (in sixteenths) to two decimals: well formed and at
\* most half a hundredth away from x
ShowsAmount(s, x) ==
    /\ TwoDecimalForm(s)
    /\ Abs(16 * CentsOf(s) - 100 * x) <= 8

\* net price of a room, as a float
NetPrice(d, room) == py_float(Get(d, room)).v

\* position of a key in a dict
IndexOf(d, key) == CHOOSE i \in 1..Len(d) : d[i].k = key

\* sum of f over a finite set of indices, in no particular order
RECURSIVE SumOver(_, _)
SumOver(S, f) ==
    IF S = {} THEN 0
    ELSE LET i == CHOOSE j \in S : TRUE IN f[i] + SumOver(S \ {i}, f)

Stages == <<"load", "extract", "taxes", "resolve", "assemble", "write",
            "print1", "print2", "print3", "done">>

StageNo(p) == CHOOSE i \in 1..Len(Stages) : Stages[i] = p

\* the run got past stage p without an error there
Passed(p) == StageNo(pc) > StageNo(p)

Str10 == <<"1", "0">>

ScenarioFile ==
    [state |-> "ok",
     doc |-> [keys |-> {"assignment_results"},
              assignment_results |->
                  <<Entry(EntryKeys, ScenarioPrices, 2, {"taxes"}, ScenarioTaxes)>>]]

C2_RoomTotals ==
    Passed("resolve") =>
        LET rt == room_totals[1]
            sp == shown_prices[1]
        IN  /\ Keys(rt) = Keys(sp)
            /\ Len(rt) = Len(sp)
            /\ \A i \in 1..Len(rt) :
                 ShowsAmount(rt[i].v, NetPrice(sp, rt[i].k) + total_taxes[1])

\* the scenario: totals "115.00" and "95.00"
C2_Witness ==
    /\ pc = "assemble" /\ shown_prices = <<ScenarioPrices>> /\ total_taxes = <<240>>
    /\ room_totals = << <<[k |-> "Standard", v |-> <<"1", "1", "5", ".", "0", "0">>],
                          [k |-> "Deluxe", v |-> <<"9", "5", ".", "0", "0">>]>> >>

\* ---------------------------------------------------------------------- C3
\* C3: for a non-empty mapping the room returned has a net price no greater
\* than any room's, the price returned is that room's net price, and every
\* room before it in iteration order is strictly dearer (first of the ties).
C3_CheapestIsFirstMinimum ==
    (Passed("resolve") /\ shown_prices[1] # <<>>) =>
        LET sp == shown_prices[1]
        IN  /\ Len(cheapest_room) = 1 /\ Len(cheapest_price) = 1
            /\ cheapest_room[1] \in Keys(sp)
            /\ cheapest_price[1] = NetPrice(sp, cheapest_room[1])
            /\ \A r \in Keys(sp) : cheapest_price[1] <= NetPrice(sp, r)
            /\ \A i \in 1..(IndexOf(sp, cheapest_room[1]) - 1) :
                 NetPrice(sp, sp[i].k) > cheapest_price[1]

\* two rooms tie at 80 and the first one is returned
C3_Witness ==
    /\ pc = "assemble"
    /\ Len(shown_prices[1]) = 2
    /\ NetPrice(shown_prices[1], shown_prices[1][1].k) = 1280
    /\ NetPrice(shown_prices[1], shown_prices[1][2].k) = 1280
    /\ cheapest_room = <<shown_prices[1][1].k>>

\* ---------------------------------------------------------------------- C4
\* C4: when parse_taxes returns, its result is the sum of the converted values
\* of the tax mapping, every entry counted once whatever its name and its
\* position, and zero for the empty mapping.
C4_TaxSum ==
    Passed("taxes") =>
        LET taxes == json_loads(assignment_results[1].taxes).d
            vals  == [i \in 1..Len(taxes) |-> py_float(taxes[i].v).v]
        IN  /\ total_taxes[1] = SumOver(1..Len(taxes), vals)
            /\ taxes = <<>> => total_taxes[1] = 0

\* two taxes of the same amount, 10 and 10, sum to 20
C4_Witness ==
    /\ pc = "resolve"
    /\ assignment_results[1].taxes.members =
           <<[k |-> "vat", v |-> Str(Str10)], [k |-> "service", v |-> Str(Str10)]>>
    /\ total_taxes = <<320>>

\* ---------------------------------------------------------------------- C5
\* C5 as claimed: with an empty shown_price mapping the run gets no further
\* than the Price Resolver, the only error is EmptyInputError raised there,
\* and no output file is written.
C5_EmptyInputError ==
    (shown_prices = << <<>> >> /\ StageNo(pc) >= StageNo("resolve")) =>
        /\ pc = "resolve"
        /\ error \in {"none", "EmptyInputError"}
        /\ out_file = <<>>

\* --------------------------------------------------------------------- C10
\* C10 (as amended): with an empty price mapping the Price Resolver raises
\* nothing and returns None, None and an empty room_totals; the run then
\* stops with a TypeError while assembling the output record (None cannot be
\* formatted with ".2f"): nothing is written and nothing is printed.
C10_EmptyMappingAbortsInAssembly ==
    (shown_prices = << <<>> >> /\ StageNo(pc) >= StageNo("resolve")) =>
        /\ pc \in {"resolve", "assemble"}
        /\ pc = "resolve" => error = "none"
        /\ pc = "assemble" =>
             /\ cheapest_room = <<>> /\ cheapest_price = <<>>
             /\ room_totals = << <<>> >>
             /\ error \in {"none", "TypeError"}
        /\ output = <<>> /\ out_file = <<>> /\ console = <<>>

\* C10 as claimed: the Price Resolver returns the unset values and the run
\* then completes, no error being signalled.
C10_EmptyMappingCompletes ==
    (shown_prices = << <<>> >> /\ Passed("resolve")) =>
        /\ cheapest_room = <<>> /\ cheapest_price = <<>>
        /\ room_totals = << <<>> >>
        /\ error = "none"

\* the run with an empty mapping, stopped in the assembly step
C10_Witness ==
    /\ shown_prices = << <<>> >> /\ pc = "assemble" /\ error = "TypeError"
    /\ cheapest_price = <<>> /\ room_totals = << <<>> >>

\* ---------------------------------------------------------------------- C6
\* C6: an exception raised by any step before the Writer ends the run where it
\* was raised: no step is taken once an exception is pending, the output file
\* is not written and nothing has been printed.
C6_AbortBeforeWriter ==
    /\ [](  (error # "none" /\ StageNo(pc) < StageNo("write"))
            => (out_file = <<>> /\ console = <<>> /\ output = <<>>))
    /\ [][error = "none"]_vars

\* a tax value "abc" stops the run in the tax step
C6_Witness ==
    /\ pc = "taxes" /\ error = "ValueError"
    /\ \E i \in 1..Len(assignment_results[1].taxes.members) :
         assignment_results[1].taxes.members[i].v = Str(CharsAbc)
    /\ out_file = <<>> /\ console = <<>>

\* ---------------------------------------------------------------------- C7
\* C7: the steps of main run in the fixed order load, extract, taxes, resolve,
\* assemble, write, print; each step runs once, directly after its
\* predecessor, or raises and ends the run.  The Price Resolver is given the
\* total the Tax Aggregator computed, the Writer writes the assembled record,
\* and printing starts only once the file is written.
C7_StageOrder ==
    /\ [][ \/ (error' = "none" /\ StageNo(pc') = StageNo(pc) + 1)
           \/ (error' # "none" /\ pc' = pc) ]_vars
    /\ [](Passed("taxes") =>
            total_taxes = <<parse_taxes(assignment_results[1].taxes).v>>)
    /\ [][pc = "resolve" /\ pc' = "assemble" =>
            room_totals' = <<find_and_calculate_room_prices(
                                 shown_prices[1], total_taxes[1]).room_totals>>]_vars
    /\ [](Passed("assemble") <=> output # <<>>)
    /\ [](Passed("write") <=> out_file # <<>>)
    /\ [](out_file # <<>> => out_file = output)
    /\ [](console # <<>> => out_file # <<>>)
    /\ [](Len(console) = IF StageNo(pc) <= StageNo("print1") THEN 0
                         ELSE StageNo(pc) - StageNo("print1"))

\* a complete run: file written, three lines printed
C7_Witness ==
    pc = "done" /\ error = "none" /\ out_file # <<>> /\ Len(console) = 3

\* ---------------------------------------------------------------------- C8
\* What main does with one assignment result, the file system permitting:
\* the exception it ends with, or the record it writes.
RunOnEntry(e) ==
    IF ~({"shown_price", "number_of_guests", "ext_data"} \subseteq e.keys)
       \/ "taxes" \notin e.ext_keys
    THEN [err |-> "KeyError", out |-> <<>>]
    ELSE LET t == parse_taxes(e.taxes) IN
         IF t.err # "none" THEN [err |-> t.err, out |-> <<>>]
         ELSE LET r == find_and_calculate_room_prices(e.shown_price, t.v) IN
              IF r.err # "none" THEN [err |-> r.err, out |-> <<>>]
              ELSE IF r.cheapest_price = <<>> THEN [err |-> "TypeError", out |-> <<>>]
              ELSE [err |-> "none",
                    out |-> <<[cheapest_price_info |->
                                  [room_type        |-> r.cheapest_room[1],
                                   number_of_guests |-> e.number_of_guests,
                                   price            |-> Format2f(r.cheapest_price[1])],
                               room_totals |-> r.room_totals]>>]

Finished == pc = "done" \/ error # "none"

HasFirstEntry ==
    /\ file.state = "ok"
    /\ "assignment_results" \in file.doc.keys
    /\ file.doc.assignment_results # <<>>

\* C8: the outcome of a finished run (exception, file written, lines printed)
\* is determined by the first assignment result alone: it is what RunOnEntry
\* gives for that entry, whatever follows it in the sequence.
C8_OnlyFirstEntry ==
    (Finished /\ HasFirstEntry) =>
        LET ref == RunOnEntry(file.doc.assignment_results[1])
        IN  IF ref.err # "none"
            THEN error = ref.err /\ out_file = <<>> /\ console = <<>>
            ELSE \/ error = "PermissionError" /\ out_file = <<>> /\ console = <<>>
                 \/ /\ error = "none"
                    /\ out_file = ref.out
                    /\ console =
                         <<[label |-> "Cheapest Price:",
                            text |-> <<ref.out[1].cheapest_price_info.price>>],
                           [label |-> "Cheapest Price Info:",
                            text |-> <<ref.out[1].cheapest_price_info>>],
                           [label |-> "Room Totals (Net Price + Taxes):",
                            text |-> <<ref.out[1].room_totals>>]>>

\* a complete run on a document with a second, different assignment result
C8_Witness ==
    /\ pc = "done" /\ error = "none"
    /\ Len(file.doc.assignment_results) > 1
    /\ file.doc.assignment_results[2] # file.doc.assignment_results[1]
    /\ "shown_price" \in file.doc.assignment_results[2].keys

\* ---------------------------------------------------------------------- C9
\* C9: on every run that writes the output file, the room type reported is a
\* key of room_totals and its total (net price + total_taxes) is no greater
\* than any room's total, both as numbers and as printed in room_totals.
C9_CheapestWithTaxes ==
    out_file # <<>> =>
        LET room == out_file[1].cheapest_price_info.room_type
            rt   == out_file[1].room_totals
            sp   == shown_prices[1]
        IN  /\ room \in Keys(rt)
            /\ \A r \in Keys(sp) :
                 /\ NetPrice(sp, room) + total_taxes[1] <= NetPrice(sp, r) + total_taxes[1]
                 /\ CentsOf(Get(rt, room)) <= CentsOf(Get(rt, r))

\* the cheapest room is the second of two, with taxes of 15
C9_Witness ==
    /\ pc = "done" /\ total_taxes = <<240>>
    /\ Len(shown_prices[1]) = 2
    /\ out_file[1].cheapest_price_info.room_type = shown_prices[1][2].k
    /\ NetPrice(shown_prices[1], shown_prices[1][1].k) = 1600

====
